---- MODULE Spec2Model ----
(***************************************************************************)
(* MeerEVM: the virtual machine adapter that embeds an EVM engine in a     *)
(* host node.  The module models                                           *)
(*   - the VM of the pool bridge (Initialize, Bootstrapping, Shutdown,     *)
(*     VerifyTx, validateTx, addTx, sendTxs, initTxPool, handler),         *)
(*   - the codec helpers of package common (ReverseBytes, ToQNGTx),        *)
(*   - the VM of src/evm/vm.go (Initialize, Shutdown, BuildBlock).         *)
(* Three specifications share the variables: Spec (the bridge VM and its   *)
(* goroutines), SpecPure (the pure functions applied to inputs drawn from  *)
(* bounded sets) and SpecLegacy (the VM of src/evm/vm.go).  SpecLive is    *)
(* Spec with the fairness of the Go scheduler.                             *)
(***************************************************************************)
EXTENDS Integers, Sequences, FiniteSets, TLC

\* ------------------------------------------------------------------ bounds
\* Capacity of vm.txsCh (256 in New), scaled down so that the notifications
\* of the model can fill it.
TxsChCap == 1
\* How many blocks ConnectBlock may commit (each advances sender A's nonce).
MaxHeight == 1
\* How many times the host may call Shutdown.
MaxShutdownCalls == 2
\* Width of a hash in bytes (32 in the program), scaled down.
HashLen == 4
\* How many blocks the VM of src/evm/vm.go may build.
MaxLegacyHeight == 3

\* ------------------------------------------------------- program constants
txSlotSize == 32 * 1024
txMaxSize == 4 * txSlotSize

\* params.Ether and qtypes.AtomsPerCoin, both scaled down by the same factor
\* of their real ratio: Precision is their quotient as in package common.
Ether == 1000
AtomsPerCoin == 10
Precision == Ether \div AtomsPerCoin

\* --------------------------------------------------------------- big.Int
\* A *big.Int is the pair <<hi, lo>> standing for hi * 2^256 + lo, with lo
\* small in magnitude: exact for the values near 0 and near 2^256 that the
\* validation rules distinguish, and closed under the operations used.
Big(n) == [hi |-> 0, lo |-> n]
Big256(n) == [hi |-> 1, lo |-> n]

Abs(n) == IF n < 0 THEN 0 - n ELSE n

RECURSIVE BitLenNat(_)
BitLenNat(n) == IF n = 0 THEN 0 ELSE 1 + BitLenNat(n \div 2)

\* big.Int.BitLen: the length of the absolute value in bits.
BitLen(x) ==
    IF x.hi = 0 THEN BitLenNat(Abs(x.lo))
    ELSE IF x.lo < 0 THEN 256 + BitLenNat(x.hi - 1)
    ELSE 256 + BitLenNat(x.hi)

Sign(x) ==
    IF x.hi > 0 THEN 1
    ELSE IF x.lo > 0 THEN 1
    ELSE IF x.lo < 0 THEN 0 - 1
    ELSE 0

Cmp(x, y) ==
    IF x.hi < y.hi THEN 0 - 1
    ELSE IF x.hi > y.hi THEN 1
    ELSE IF x.lo < y.lo THEN 0 - 1
    ELSE IF x.lo > y.lo THEN 1
    ELSE 0

BigAdd(x, y) == [hi |-> x.hi + y.hi, lo |-> x.lo + y.lo]
BigSub(x, y) == [hi |-> x.hi - y.hi, lo |-> x.lo - y.lo]
BigMulUint(x, g) == [hi |-> x.hi * g, lo |-> x.lo * g]

\* ------------------------------------------------------------ transactions
Senders == {"A", "B", "C"}

\* types.Transaction as the accessors present it.  data are the payload
\* bytes written out; pad counts further zero bytes of the payload that are
\* not written out (a large payload).  sig is the sender the signature
\* recovers to, or "invalid".
MkTx(typ, nonce, gas, tip, fee, value, to, data, pad, sig) ==
    [typ |-> typ, nonce |-> nonce, gas |-> gas, gasTipCap |-> tip,
     gasFeeCap |-> fee, value |-> value, to |-> to, data |-> data,
     pad |-> pad, sig |-> sig]

\* ------------------------------------------------------------------- RLP
RECURSIVE BytesOf(_)
\* The big-endian bytes of n without leading zeros.
BytesOf(n) == IF n = 0 THEN <<>> ELSE Append(BytesOf(n \div 256), n % 256)

RECURSIVE BytesToNat(_)
BytesToNat(b) ==
    IF b = <<>> THEN 0
    ELSE BytesToNat(SubSeq(b, 1, Len(b) - 1)) * 256 + b[Len(b)]

Repeat(x, n) == [i \in 1..n |-> x]

\* The big-endian bytes of a non-negative big.Int (hi * 2^256 + lo).
BigBytes(x) ==
    IF x.hi = 0 THEN BytesOf(x.lo)
    ELSE IF x.lo >= 0
         THEN BytesOf(x.hi) \o Repeat(0, 32 - Len(BytesOf(x.lo))) \o BytesOf(x.lo)
         ELSE BytesOf(x.hi - 1) \o Repeat(255, 31) \o <<256 + x.lo>>

\* The inverse of BigBytes on its range; ok is FALSE for a magnitude the pair
\* representation does not cover.
BytesToBig(b) ==
    IF Len(b) <= 3 THEN [ok |-> TRUE, v |-> Big(BytesToNat(b))]
    ELSE IF Len(b) = 32 /\ \A i \in 1..31 : b[i] = 255
         THEN [ok |-> TRUE, v |-> Big256(b[32] - 256)]
    ELSE IF Len(b) = 33 /\ \A i \in 2..30 : b[i] = 0
         THEN [ok |-> TRUE,
               v |-> [hi |-> b[1], lo |-> BytesToNat(SubSeq(b, 31, 33))]]
    ELSE [ok |-> FALSE, v |-> Big(0)]

RlpBytes(b) ==
    IF Len(b) = 1 /\ b[1] < 128 THEN b
    ELSE <<128 + Len(b)>> \o b

RlpUint(n) == RlpBytes(BytesOf(n))
RlpBig(x) == RlpBytes(BigBytes(x))

RlpList(payload) ==
    IF Len(payload) < 56 THEN <<192 + Len(payload)>> \o payload
    ELSE <<247 + Len(BytesOf(Len(payload)))>> \o BytesOf(Len(payload)) \o payload

SenderIndex(sig) ==
    CASE sig = "invalid" -> 0 [] sig = "A" -> 1 [] sig = "B" -> 2 [] sig = "C" -> 3

IndexSender(i) ==
    CASE i = 1 -> "A" [] i = 2 -> "B" [] i = 3 -> "C" [] OTHER -> "invalid"

\* The bytes tx.MarshalBinary writes: a legacy transaction is its RLP list, a
\* typed one is the type byte followed by the RLP list.  The list holds
\* nonce, tip cap, fee cap, gas, to, value, payload and signature; the
\* unwritten zero bytes of the payload are run-length encoded (pad) and the
\* signature is the index of the sender it recovers to.
EncBytes(tx) ==
    LET body == RlpList(RlpUint(tx.nonce) \o RlpBig(tx.gasTipCap)
                        \o RlpBig(tx.gasFeeCap) \o RlpUint(tx.gas)
                        \o RlpBytes(IF tx.to = "nil" THEN <<>> ELSE <<1>>)
                        \o RlpBig([tx.value EXCEPT !.lo = Abs(tx.value.lo)])
                        \o RlpBytes(tx.data) \o RlpUint(tx.pad)
                        \o RlpUint(SenderIndex(tx.sig)))
    IN  IF tx.typ = 0 THEN body ELSE <<tx.typ>> \o body

\* tx.MarshalBinary: RLP cannot encode a negative big.Int.
MarshalBinary(tx) ==
    IF Sign(tx.value) < 0 THEN [err |-> TRUE, b |-> <<>>]
    ELSE [err |-> FALSE, b |-> EncBytes(tx)]

\* tx.Size(): the length of the encoding, the unwritten payload included.
Size(tx) == Len(EncBytes(tx)) + tx.pad

\* One RLP item at the head of b: its kind, its content and what follows it.
DecodeItem(b) ==
    LET bad == [ok |-> FALSE, list |-> FALSE, content |-> <<>>, rest |-> <<>>]
    IN  IF b = <<>> THEN bad
        ELSE IF b[1] < 128
             THEN [ok |-> TRUE, list |-> FALSE, content |-> <<b[1]>>, rest |-> Tail(b)]
        ELSE IF b[1] <= 183
             THEN LET n == b[1] - 128
                  IN  IF Len(b) < 1 + n THEN bad
                      ELSE IF n = 1 /\ b[2] < 128 THEN bad
                      ELSE [ok |-> TRUE, list |-> FALSE,
                            content |-> SubSeq(b, 2, 1 + n),
                            rest |-> SubSeq(b, 2 + n, Len(b))]
        ELSE IF b[1] <= 191 THEN bad
        ELSE IF b[1] <= 247
             THEN LET n == b[1] - 192
                  IN  IF Len(b) < 1 + n THEN bad
                      ELSE [ok |-> TRUE, list |-> TRUE,
                            content |-> SubSeq(b, 2, 1 + n),
                            rest |-> SubSeq(b, 2 + n, Len(b))]
        ELSE LET k == b[1] - 247
             IN  IF k > 2 \/ Len(b) < 1 + k THEN bad
                 ELSE LET n == BytesToNat(SubSeq(b, 2, 1 + k))
                      IN  IF b[2] = 0 \/ n < 56 \/ Len(b) < 1 + k + n THEN bad
                          ELSE [ok |-> TRUE, list |-> TRUE,
                                content |-> SubSeq(b, 2 + k, 1 + k + n),
                                rest |-> SubSeq(b, 2 + k + n, Len(b))]

RECURSIVE SplitItems(_)
\* The string items of a list payload; ok is FALSE when one does not parse.
SplitItems(b) ==
    IF b = <<>> THEN [ok |-> TRUE, items |-> <<>>]
    ELSE LET it == DecodeItem(b)
         IN  IF ~it.ok \/ it.list THEN [ok |-> FALSE, items |-> <<>>]
             ELSE LET more == SplitItems(it.rest)
                  IN  [ok |-> more.ok, items |-> <<it.content>> \o more.items]

\* An RLP integer has no leading zero byte; the model's integers stay below
\* 2^24.
UintOk(c) == Len(c) <= 3 /\ (c # <<>> => c[1] # 0)
BigOk(c) == (c # <<>> => c[1] # 0) /\ BytesToBig(c).ok

NoTx == MkTx(0, 0, 0, Big(0), Big(0), Big(0), "nil", <<>>, 0, "invalid")

\* rlp.DecodeBytes into the transaction's fields.
DecodeBody(typ, b) ==
    LET bad == [err |-> TRUE, tx |-> NoTx]
        top == DecodeItem(b)
    IN  IF ~top.ok \/ ~top.list \/ top.rest # <<>> THEN bad
        ELSE LET split == SplitItems(top.content)
                 f == split.items
             IN  IF ~split.ok \/ Len(f) # 9 THEN bad
                 ELSE IF ~(UintOk(f[1]) /\ BigOk(f[2]) /\ BigOk(f[3]) /\ UintOk(f[4])
                           /\ f[5] \in {<<>>, <<1>>} /\ BigOk(f[6]) /\ UintOk(f[8])
                           /\ UintOk(f[9]))
                      THEN bad
                 ELSE [err |-> FALSE,
                       tx |-> MkTx(typ, BytesToNat(f[1]), BytesToNat(f[4]),
                                   BytesToBig(f[2]).v, BytesToBig(f[3]).v,
                                   BytesToBig(f[6]).v,
                                   IF f[5] = <<>> THEN "nil" ELSE "addr",
                                   f[7], BytesToNat(f[8]),
                                   IndexSender(BytesToNat(f[9])))]

\* tx.UnmarshalBinary: a first byte above 0x7f starts a legacy transaction,
\* otherwise the first byte is the type of a typed transaction (1 or 2).
UnmarshalBinary(b) ==
    IF Len(b) > 0 /\ b[1] > 127 THEN DecodeBody(0, b)
    ELSE IF b = <<>> \/ b[1] \notin {1, 2} THEN [err |-> TRUE, tx |-> NoTx]
    ELSE DecodeBody(b[1], Tail(b))

RECURSIVE CountZero(_)
CountZero(b) ==
    IF b = <<>> THEN 0
    ELSE (IF Head(b) = 0 THEN 1 ELSE 0) + CountZero(Tail(b))

\* core.IntrinsicGas(data, accessList, isContractCreation, true, true), for
\* an empty access list.  Its overflow error needs a payload beyond 2^59
\* bytes, which the size rule excludes before it is called, so err is FALSE
\* for every transaction here.
IntrinsicGas(tx) ==
    LET z == CountZero(tx.data) + tx.pad
        nz == Len(tx.data) - CountZero(tx.data)
        base == IF tx.to = "nil" THEN 53000 ELSE 21000
    IN  [err |-> FALSE, gas |-> base + nz * 16 + z * 4]

\* tx.Cost(): gas * gasPrice + value, where gasPrice is the fee cap.
Cost(tx) == BigAdd(BigMulUint(tx.gasFeeCap, tx.gas), tx.value)

\* ------------------------------------------------------------------- hex
HexDigits == <<"0", "1", "2", "3", "4", "5", "6", "7",
               "8", "9", "a", "b", "c", "d", "e", "f">>

RECURSIVE HexEncodeToString(_)
HexEncodeToString(b) ==
    IF b = <<>> THEN <<>>
    ELSE <<HexDigits[(Head(b) \div 16) + 1], HexDigits[(Head(b) % 16) + 1]>>
         \o HexEncodeToString(Tail(b))

\* hexutil.Encode: "0x" followed by the hex digits of b.
HexutilEncode(b) == <<"0", "x">> \o HexEncodeToString(b)

\* The value of a hex digit (either case), or -1.
HexVal(c) ==
    IF \E i \in 1..16 : HexDigits[i] = c
    THEN (CHOOSE i \in 1..16 : HexDigits[i] = c) - 1
    ELSE CASE c = "A" -> 10 [] c = "B" -> 11 [] c = "C" -> 12
           [] c = "D" -> 13 [] c = "E" -> 14 [] c = "F" -> 15
           [] OTHER -> 0 - 1

RECURSIVE HexDecodeString(_)
\* hex.DecodeString with its error dropped, as common.Hex2Bytes calls it: the
\* bytes decoded before the first character that is no hex digit.
HexDecodeString(s) ==
    IF Len(s) < 2 THEN <<>>
    ELSE IF HexVal(s[1]) < 0 \/ HexVal(s[2]) < 0 THEN <<>>
    ELSE <<HexVal(s[1]) * 16 + HexVal(s[2])>> \o HexDecodeString(SubSeq(s, 3, Len(s)))

\* FromHex without the handling of the 0x prefix (common.Hex2Bytes).
FromHexKeepPrefix(s) == HexDecodeString(s)

\* common.FromHex: an optional 0x prefix is dropped and an odd number of
\* digits is padded with a leading zero.
FromHex(s) ==
    LET t == IF Len(s) >= 2 /\ s[1] = "0" /\ s[2] \in {"x", "X"}
             THEN SubSeq(s, 3, Len(s)) ELSE s
        u == IF Len(t) % 2 = 1 THEN <<"0">> \o t ELSE t
    IN  HexDecodeString(u)

\* ------------------------------------------------------------- validation
\* The chain state a validation reads: whether BlockChain().State() yields a
\* state, and the nonce and balance of each account in it.
MkState(ok, nonceA, balance) ==
    [ok |-> ok,
     nonce |-> [a \in Senders |-> IF a = "A" THEN nonceA ELSE 0],
     balance |-> [a \in Senders |-> balance]]

\* validateTx with the balance check placed before the nonce check.
validateTxFundsFirst(tx, st) ==
    IF Size(tx) > txMaxSize THEN "ErrOversizedData"
    ELSE IF Sign(tx.value) < 0 THEN "ErrNegativeValue"
    ELSE IF BitLen(tx.gasFeeCap) > 256 THEN "ErrFeeCapVeryHigh"
    ELSE IF BitLen(tx.gasTipCap) > 256 THEN "ErrTipVeryHigh"
    ELSE IF Cmp(tx.gasFeeCap, tx.gasTipCap) < 0 THEN "ErrTipAboveFeeCap"
    ELSE IF tx.sig \notin Senders THEN "ErrInvalidSender"
    ELSE IF ~st.ok THEN "ErrStateUnavailable"
    ELSE IF Cmp(st.balance[tx.sig], Cost(tx)) < 0 THEN "ErrInsufficientFunds"
    ELSE IF st.nonce[tx.sig] > tx.nonce THEN "ErrNonceTooLow"
    ELSE IF IntrinsicGas(tx).err THEN "ErrGasUintOverflow"
    ELSE IF tx.gas < IntrinsicGas(tx).gas THEN "ErrIntrinsicGas"
    ELSE "nil"

\* VM.validateTx.  The result is the name of the error returned, or "nil".
validateTx(tx, st) ==
    IF Size(tx) > txMaxSize THEN "ErrOversizedData"
    ELSE IF Sign(tx.value) < 0 THEN "ErrNegativeValue"
    ELSE IF BitLen(tx.gasFeeCap) > 256 THEN "ErrFeeCapVeryHigh"
    ELSE IF BitLen(tx.gasTipCap) > 256 THEN "ErrTipVeryHigh"
    ELSE IF Cmp(tx.gasFeeCap, tx.gasTipCap) < 0 THEN "ErrTipAboveFeeCap"
    ELSE IF tx.sig \notin Senders THEN "ErrInvalidSender"
    ELSE IF ~st.ok THEN "ErrStateUnavailable"
    ELSE IF st.nonce[tx.sig] > tx.nonce THEN "ErrNonceTooLow"
    ELSE IF Cmp(st.balance[tx.sig], Cost(tx)) < 0 THEN "ErrInsufficientFunds"
    ELSE IF IntrinsicGas(tx).err THEN "ErrGasUintOverflow"
    ELSE IF tx.gas < IntrinsicGas(tx).gas THEN "ErrIntrinsicGas"
    ELSE "nil"

\* big.Int.Div by a positive divisor, for a dividend below 2^256.
BigDiv(x, p) == CASE x.hi = 0 -> Big(x.lo \div p)

\* Width of the int64 result, scaled down from 64 bits.
Int64Bits == 16

\* big.Int.Int64: the low bits of the value as a signed integer.
Int64(x) ==
    LET m == 2 ^ Int64Bits
        r == x.lo % m
    IN  IF r >= m \div 2 THEN r - m ELSE r

\* A VerifyTx that computes the fee of whatever decodes.
VerifyTxUnvalidated(htx, st) ==
    IF htx.txType = "TxTypeCrossChainVM"
    THEN LET dec == UnmarshalBinary(FromHex(htx.data))
         IN  IF dec.err THEN [fee |-> 0, err |-> "rlp decoding failed"]
             ELSE [fee |-> Int64(BigDiv(BigSub(Cost(dec.tx), dec.tx.value), Precision)),
                   err |-> "nil"]
    ELSE [fee |-> 0, err |-> "Not support"]

\* VM.VerifyTx on a host transaction of type txType whose data is the script.
VerifyTx(htx, st) ==
    IF htx.txType = "TxTypeCrossChainVM"
    THEN LET txb == FromHex(htx.data)
             dec == UnmarshalBinary(txb)
         IN  IF dec.err THEN [fee |-> 0, err |-> "rlp decoding failed"]
             ELSE IF validateTx(dec.tx, st) # "nil"
                  THEN [fee |-> 0, err |-> validateTx(dec.tx, st)]
             ELSE [fee |-> Int64(BigDiv(BigSub(Cost(dec.tx), dec.tx.value), Precision)),
                   err |-> "nil"]
    ELSE [fee |-> 0, err |-> "Not support"]

\* ------------------------------------------------------------------ codec
RECURSIVE WeightedSum(_, _, _)
WeightedSum(b, i, j) ==
    IF j > Len(b) THEN 0 ELSE b[j] * (i + j) + WeightedSum(b, i, j + 1)

\* tx.Hash(): a digest of the encoding, HashLen bytes wide.
Hash(tx) ==
    [i \in 1..HashLen |-> (WeightedSum(EncBytes(tx), i, 1) + i * 37) % 256]

RECURSIVE ReverseLoop(_, _)
\* The loop of ReverseBytes at index i (from 0).
ReverseLoop(bs, i) ==
    LET length == Len(bs)
        index == length - 1 - i
    IN  IF i < length \div 2
        THEN ReverseLoop([bs EXCEPT ![index + 1] = bs[i + 1],
                                    ![i + 1] = bs[index + 1]], i + 1)
        ELSE bs

\* ReverseBytes with the swap left out.
ReverseBytesNoSwap(bs) == bs

ReverseBytes(bs) == ReverseLoop(bs, 0)

\* qtypes.NewTransaction followed by AddTxIn and AddTxOut.
NewTransaction == [TxIn |-> <<>>, TxOut |-> <<>>, Timestamp |-> 0]
AddTxIn(mtx, in) == [mtx EXCEPT !.TxIn = Append(@, in)]
AddTxOut(mtx, out) == [mtx EXCEPT !.TxOut = Append(@, out)]

\* The synthetic input and the marker output that addTx and ToQNGTx build.
BridgeTxIn(qtxh, script) ==
    [PreviousOut |-> [Hash |-> qtxh, OutIndex |-> "SupperPrevOutIndex"],
     Sequence |-> "TxTypeCrossChainVM",
     AmountIn |-> [Id |-> "ETHID", Value |-> 0],
     SignScript |-> script]

BridgeTxOut ==
    [Amount |-> [Value |-> 0, Id |-> "ETHID"], PkScript |-> "EVMTxPKScript"]

\* VM.addTx up to the submission: the host transaction built for tx.
addTxBuild(tx) ==
    LET txmb == MarshalBinary(tx)
    IN  IF txmb.err THEN [err |-> TRUE, mtx |-> NewTransaction]
        ELSE LET txmbHex == HexutilEncode(txmb.b)
                 qtxh == ReverseBytes(Hash(tx))
             IN  [err |-> FALSE,
                  mtx |-> AddTxOut(AddTxIn(NewTransaction,
                                           BridgeTxIn(qtxh, txmbHex)),
                                   BridgeTxOut)]

\* common.ToQNGTx; nil is TRUE when it returns nil.
ToQNGTx(tx, timestamp) ==
    LET txmb == MarshalBinary(tx)
    IN  IF txmb.err THEN [nil |-> TRUE, mtx |-> NewTransaction]
        ELSE LET txmbHex == HexutilEncode(txmb.b)
                 qtxh == ReverseBytes(Hash(tx))
                 mtx == IF timestamp > 0
                        THEN [NewTransaction EXCEPT !.Timestamp = timestamp]
                        ELSE NewTransaction
             IN  [nil |-> FALSE,
                  mtx |-> AddTxOut(AddTxIn(mtx, BridgeTxIn(qtxh, txmbHex)),
                                   BridgeTxOut)]

\* The consensus.Tx the host hands to VerifyTx for a host transaction: its
\* type and the script of its input.
AsConsensusTx(mtx) ==
    [txType |-> mtx.TxIn[1].Sequence, data |-> mtx.TxIn[1].SignScript]

\* ----------------------------------------------------------------- state
VARIABLES
    \* the VM of the pool bridge
    ctx,            \* vm.ctx is set
    chain,          \* vm.chain: "nil", "created", "started", "stopping", "stopped"
    shutdownChan,   \* "open" or "closed"
    shutdownWg,     \* the counter of vm.shutdownWg
    txsCh,          \* the notifications queued in vm.txsCh
    txsSub,         \* vm.txsSub: "none", "subscribed", "unsubscribed"
    hPc,            \* where the handler goroutine is
    hBatch,         \* the transactions of the notification it is sending
    hStale,         \* whether that notification was queued when the signal closed
    dPc,            \* where the goroutine of initTxPool is
    dBatch,         \* the pending transactions it still has to send
    sdPc,           \* where a running Shutdown call is
    sdCalls,        \* how many Shutdown calls the host has made
    sdReturns,      \* how many of them have returned
    initRes,        \* what Initialize returned: "none", "ok", "err"
    bootRes,        \* what Bootstrapping returned: "none", "ok", "err"
    journal,        \* the transactions the engine's pool loads when it is built
    evmPool,        \* the pending transactions of the embedded pool
    pSend,          \* the notification the engine's feed is delivering
    height,         \* blocks connected; the nonce of sender A in the state
    hostPool,       \* the transactions the host mempool holds
    crashed,        \* a goroutine panicked: the process is gone
    steps,          \* the steps Shutdown has performed, in order
    failed,         \* the transactions whose addTx returned an error
    sentInvalid,    \* a transaction failing validateTx was submitted to the host
    staleFwd,       \* a notification queued at the close was then forwarded
    hSubmits,       \* how many submissions the handler has made
    \* the pure functions
    ptx, pst, pop, pres,
    \* the VM of src/evm/vm.go
    lctx, lchan, lnode, lpc, lheight, lres, lcrashed

bridgeVars ==
    <<ctx, chain, shutdownChan, shutdownWg, txsCh, txsSub, hPc, hBatch, hStale,
      dPc, dBatch, sdPc, sdCalls, sdReturns, initRes, bootRes, journal, evmPool,
      pSend, height, hostPool, crashed, failed, sentInvalid, staleFwd, hSubmits>>
pureVars == <<ptx, pst, pop, pres>>
legacyVars == <<lctx, lchan, lnode, lpc, lheight, lres, lcrashed>>
vars == <<bridgeVars, steps, pureVars, legacyVars>>

\* New(): an open signal channel, an empty notification channel, no context,
\* no chain.
InitBridge ==
    /\ ctx = FALSE /\ chain = "nil" /\ shutdownChan = "open" /\ shutdownWg = 0
    /\ txsCh = <<>> /\ txsSub = "none"
    /\ hPc = "none" /\ hBatch = <<>> /\ hStale = FALSE
    /\ dPc = "none" /\ dBatch = <<>>
    /\ sdPc = "idle" /\ sdCalls = 0 /\ sdReturns = 0
    /\ initRes = "none" /\ bootRes = "none"
    /\ evmPool = {} /\ pSend = <<>> /\ height = 0 /\ hostPool = {}
    /\ crashed = FALSE /\ failed = {} /\ sentInvalid = FALSE
    /\ staleFwd = FALSE /\ hSubmits = 0

InitPureIdle ==
    /\ ptx = NoTx /\ pst = MkState(TRUE, 0, Big(0)) /\ pop = "none"
    /\ pres = [err |-> "nil"]

\* The nil block of a BuildBlock that returns no block.
NilBlock == [number |-> 0, ntx |-> 0, extra |-> FALSE]

\* New() of src/evm/vm.go: an empty VM.
InitLegacy ==
    /\ lctx = FALSE /\ lchan = "nil" /\ lnode = "nil" /\ lpc = "idle"
    /\ lheight = 0 /\ lres = [err |-> "none", block |-> NilBlock]
    /\ lcrashed = FALSE

\* ------------------------------------------- the pure functions, applied
ValTxs ==
    {MkTx(2, n, g, tip, fee, v, to, <<>>, pad, sig) :
        n \in {0}, g \in {20999, 21000},
        tip \in {Big(1), Big(3), Big256(0)},
        fee \in {Big(2), Big256(0 - 1), Big256(0)},
        v \in {Big(0 - 1), Big(0), Big(5)}, to \in {"addr"},
        pad \in {0, 131000, 131072}, sig \in {"A", "invalid"}}

WireTxs ==
    {MkTx(typ, n, 60000, fee, fee, v, to, data, 0, "B") :
        typ \in {0, 1, 2}, n \in {0, 1, 127, 128, 70000},
        fee \in {Big(2), Big256(0 - 1)}, v \in {Big(0), Big(300)},
        to \in {"nil", "addr"},
        data \in {<<>>, <<0>>, <<127>>, <<128>>, <<255, 0, 16>>}}

\* The transactions the encoders are applied to.
EncTxs ==
    WireTxs \cup {t \in ValTxs : t.pad = 0 /\ t.gas = 21000 /\ t.sig = "A"}

PureStates ==
    {MkState(ok, n, b) : ok \in BOOLEAN, n \in {0, 1},
                         b \in {Big(0), Big(2000000)}}

InitPure ==
    /\ \/ ptx \in ValTxs /\ pst \in PureStates
       \/ ptx \in WireTxs /\ pst = MkState(TRUE, 0, Big(2000000))
    /\ pop = "none"
    /\ pres = [err |-> "nil"]
    /\ InitBridge /\ journal = {} /\ steps = <<>> /\ InitLegacy

PureFrame == UNCHANGED <<bridgeVars, steps, legacyVars, ptx, pst>>

DoValidateTx ==
    /\ pop = "none"
    /\ pop' = "validateTx"
    /\ pres' = [err |-> validateTx(ptx, pst)]
    /\ PureFrame

DoAddTxBuild ==
    /\ pop = "none"
    /\ ptx \in EncTxs
    /\ pop' = "addTx"
    /\ pres' = addTxBuild(ptx)
    /\ PureFrame

DoToQNGTx ==
    \E timestamp \in {0, 1} :
        /\ pop = "none"
        /\ ptx \in EncTxs
        /\ pop' = "ToQNGTx"
        /\ pres' = [err |-> ToQNGTx(ptx, timestamp).nil,
                    mtx |-> ToQNGTx(ptx, timestamp).mtx,
                    timestamp |-> timestamp]
        /\ PureFrame

\* The script a host transaction carries when it reaches VerifyTx: the one
\* the codec wrote, or a garbled one.
Garbled == <<"0", "x", "z", "z">>

DoVerifyTx ==
    \E kind \in {"vm", "other", "garbled"} :
        /\ pop = "none"
        /\ ~addTxBuild(ptx).err
        /\ pop' = "VerifyTx"
        /\ LET htx == AsConsensusTx(addTxBuild(ptx).mtx)
               arg == CASE kind = "vm" -> htx
                        [] kind = "other" -> [htx EXCEPT !.txType = "TxTypeRegular"]
                        [] kind = "garbled" -> [htx EXCEPT !.data = Garbled]
           IN  pres' = [fee |-> VerifyTx(arg, pst).fee,
                        err |-> VerifyTx(arg, pst).err, kind |-> kind]
        /\ PureFrame

\* Encode with addTx or ToQNGTx, then decode as VerifyTx does.
DoRoundTrip ==
    \E via \in {"addTx", "ToQNGTx"} :
        /\ pop = "none"
        /\ ptx \in EncTxs
        /\ ~MarshalBinary(ptx).err
        /\ pop' = "roundtrip"
        /\ LET mtx == IF via = "addTx" THEN addTxBuild(ptx).mtx
                      ELSE ToQNGTx(ptx, 0).mtx
               dec == UnmarshalBinary(FromHex(AsConsensusTx(mtx).data))
           IN  pres' = [err |-> dec.err, tx |-> dec.tx, via |-> via]
        /\ PureFrame

\* The embedded engine's hash of the block at a height.
BlockHash(number) == [i \in 1..HashLen |-> (number * 31 + i * 17) % 256]

\* hash.MustBytesToHash: the bytes copied as they come into a host hash.
MustBytesToHash(b) == [i \in 1..HashLen |-> IF i <= Len(b) THEN b[i] ELSE 0]

\* VM.GetBlock with the engine's current block at height number.
GetBlock(number) ==
    LET h == MustBytesToHash(BlockHash(number))
    IN  [id |-> h, ethBlock |-> number, status |-> "Accepted", err |-> "nil"]

\* VM.LastAccepted with the engine's current block at height number.
LastAccepted(number) ==
    LET h == MustBytesToHash(BlockHash(number))
    IN  [id |-> h, err |-> "nil"]

\* The transaction drawn plays no part in the calls below.
DoGetBlock ==
    \E number \in 0..MaxHeight :
        /\ pop = "none"
        /\ ptx \in WireTxs
        /\ pop' = "GetBlock"
        /\ pres' = [GetBlock(number) EXCEPT !.ethBlock = number]
        /\ PureFrame

DoLastAccepted ==
    \E number \in 0..MaxHeight :
        /\ pop = "none"
        /\ ptx \in WireTxs
        /\ pop' = "LastAccepted"
        /\ pres' = [id |-> LastAccepted(number).id, ethBlock |-> number,
                    err |-> LastAccepted(number).err]
        /\ PureFrame

\* The addresses handed to GetBalance, by what the decoding makes of them.
BalanceAddrs == {"undecodable", "notSecpPubKey", "badPubKey", "A"}

\* The engine balances drawn: below, at and above one unit of precision, and
\* around the largest quotient the result type holds.
Balances ==
    {0, Precision - 1, Precision, 2 * Precision + Precision \div 2,
     (2 ^ (Int64Bits - 1) - 1) * Precision + Precision - 1,
     2 ^ (Int64Bits - 1) * Precision,
     (2 ^ Int64Bits + 1) * Precision}

\* VM.GetBalance on the state st.
GetBalance(addre, st) ==
    IF addre = "undecodable" THEN [amount |-> 0, err |-> "DecodeAddress"]
    ELSE IF addre = "notSecpPubKey" THEN [amount |-> 0, err |-> "Not SecpPubKeyAddress"]
    ELSE IF addre = "badPubKey" THEN [amount |-> 0, err |-> "UnmarshalPubkey"]
    ELSE IF ~st.ok THEN [amount |-> 0, err |-> "ErrStateUnavailable"]
    ELSE LET ba == BigDiv(st.balance[addre], Precision)
         IN  [amount |-> Int64(ba), err |-> "nil"]

DoGetBalance ==
    \E addre \in BalanceAddrs, ok \in BOOLEAN, b \in Balances :
        /\ pop = "none"
        /\ ptx \in WireTxs
        /\ pop' = "GetBalance"
        /\ LET r == GetBalance(addre, MkState(ok, 0, Big(b)))
           IN  pres' = [amount |-> r.amount, err |-> r.err, balance |-> b]
        /\ PureFrame

NextPure ==
    \/ DoGetBlock
    \/ DoLastAccepted
    \/ DoGetBalance
    \/ DoValidateTx
    \/ DoAddTxBuild
    \/ DoToQNGTx
    \/ DoVerifyTx
    \/ DoRoundTrip

SpecPure == InitPure /\ [][NextPure]_vars

\* -------------------------------------------- the bridge VM: environment
\* The embedded transactions of the bridge model, by identity.
Txs == {1, 2}

\* The transactions the host hands to VerifyTx: those, and an oversized one
\* that no pool holds.
HostTxs == Txs \cup {3}

TxOf(t) ==
    CASE t = 1 -> MkTx(2, 0, 21000, Big(1), Big(2), Big(5), "addr", <<>>, 0, "A")
      [] t = 2 -> MkTx(0, 0, 60000, Big(2), Big(2), Big(0), "nil", <<7>>, 0, "B")
      [] t = 3 -> MkTx(2, 0, 21000, Big(1), Big(2), Big(0), "addr", <<>>, 131072, "C")

\* BlockChain().State() in the bridge model: each connected block commits a
\* transaction of sender A, so A's nonce is the height.
StateAt(h) == MkState(TRUE, h, Big(2000000))

ChainState == StateAt(height)

\* The pure functions of the bridge on the embedded transactions, tabulated.
validateTxAt == [t \in HostTxs, h \in 0..MaxHeight |-> validateTx(TxOf(t), StateAt(h))]

addTxBuilt == [t \in HostTxs |-> addTxBuild(TxOf(t))]

VerifyTxAt ==
    [t \in HostTxs, h \in 0..MaxHeight |->
        VerifyTx(AsConsensusTx(addTxBuilt[t].mtx), StateAt(h))]

\* The sequences without repetition over the set S.
RECURSIVE Orders(_)
Orders(S) ==
    IF S = {} THEN {<<>>}
    ELSE UNION {{<<t>> \o o : o \in Orders(S \ {t})} : t \in S}

\* The notifications the engine's pool emits: the transactions it promoted,
\* in ascending order.
RECURSIVE Ascending(_)
Ascending(S) ==
    IF S = {} THEN <<>>
    ELSE LET m == CHOOSE x \in S : \A y \in S : x <= y
         IN  <<m>> \o Ascending(S \ {m})

\* The engine's pool admits transactions that pass its admission rules on the
\* current state, and its feed starts to deliver their notification.
EngineAdmit(S) ==
    /\ ~crashed /\ chain = "started" /\ pSend = <<>>
    /\ S # {} /\ S \cap evmPool = {}
    /\ \A t \in S : validateTxAt[t, height] = "nil"
    /\ evmPool' = evmPool \cup S
    /\ pSend' = Ascending(S)
    /\ UNCHANGED <<ctx, chain, shutdownChan, shutdownWg, txsCh, txsSub, hPc,
                   hBatch, hStale, dPc, dBatch, sdPc, sdCalls, sdReturns,
                   initRes, bootRes, journal, height, hostPool, crashed,
                   failed, sentInvalid, staleFwd, hSubmits, steps, pureVars,
                   legacyVars>>

\* The feed sends the notification on the subscribed channel, blocking while
\* the channel is full; without a subscription there is no receiver.
EngineDeliver ==
    /\ ~crashed /\ pSend # <<>>
    /\ IF txsSub = "subscribed"
       THEN /\ Len(txsCh) < TxsChCap
            /\ txsCh' = Append(txsCh, [txs |-> pSend, stale |-> FALSE])
       ELSE txsCh' = txsCh
    /\ pSend' = <<>>
    /\ UNCHANGED <<ctx, chain, shutdownChan, shutdownWg, txsSub, hPc, hBatch,
                   hStale, dPc, dBatch, sdPc, sdCalls, sdReturns, initRes,
                   bootRes, journal, evmPool, height, hostPool, crashed,
                   failed, sentInvalid, staleFwd, hSubmits, steps, pureVars,
                   legacyVars>>

\* VM.ConnectBlock: delegated to the chain, which commits the block.
ConnectBlock ==
    /\ ~crashed /\ chain = "started" /\ height < MaxHeight
    /\ height' = height + 1
    /\ UNCHANGED <<ctx, chain, shutdownChan, shutdownWg, txsCh, txsSub, hPc,
                   hBatch, hStale, dPc, dBatch, sdPc, sdCalls, sdReturns,
                   initRes, bootRes, journal, evmPool, pSend, hostPool,
                   crashed, failed, sentInvalid, staleFwd, hSubmits, steps,
                   pureVars, legacyVars>>

\* The host mempool's ProcessTransaction on the host transaction of t: the
\* host accepts it, keeping one copy of a transaction it already holds, or
\* refuses it with an error (as it may for the one that "exists in qng").
ProcessTransaction(t, accept) ==
    IF accept THEN [err |-> FALSE, accepted |-> {t}]
    ELSE [err |-> TRUE, accepted |-> {}]

\* ------------------------------------------------ the bridge VM: lifecycle
\* An Initialize that also starts the startup drain.
InitializeSpawningDrain(ok) ==
    /\ ~crashed /\ initRes = "none" /\ sdPc = "idle"
    /\ ctx' = TRUE
    /\ IF ok
       THEN /\ chain' = "created"
            /\ evmPool' = journal
            /\ txsSub' = "subscribed"
            /\ shutdownWg' = shutdownWg + 1
            /\ hPc' = "select"
            /\ dPc' = "sleep"
            /\ initRes' = "ok"
       ELSE /\ initRes' = "err"
            /\ UNCHANGED <<chain, evmPool, txsSub, shutdownWg, hPc, dPc>>
    /\ UNCHANGED <<shutdownChan, txsCh, hBatch, hStale, dBatch, sdPc,
                   sdCalls, sdReturns, bootRes, journal, pSend, height,
                   hostPool, crashed, failed, sentInvalid, staleFwd, hSubmits,
                   steps, pureVars, legacyVars>>

\* VM.Initialize; ok is whether chain.NewETHChain succeeds.  The pool built
\* with the chain loads its journal before anyone subscribes.
Initialize(ok) ==
    /\ ~crashed /\ initRes = "none" /\ sdPc = "idle"
    /\ ctx' = TRUE
    /\ IF ok
       THEN /\ chain' = "created"
            /\ evmPool' = journal
            /\ txsSub' = "subscribed"
            /\ shutdownWg' = shutdownWg + 1
            /\ hPc' = "select"
            /\ initRes' = "ok"
       ELSE /\ initRes' = "err"
            /\ UNCHANGED <<chain, evmPool, txsSub, shutdownWg, hPc>>
    /\ UNCHANGED <<shutdownChan, txsCh, hBatch, hStale, dPc, dBatch, sdPc,
                   sdCalls, sdReturns, bootRes, journal, pSend, height,
                   hostPool, crashed, failed, sentInvalid, staleFwd, hSubmits,
                   steps, pureVars, legacyVars>>

\* VM.Bootstrapping; startOk, attachOk and stateOk are whether chain.Start,
\* Node().Attach and BlockChain().State() succeed.  After a failed Attach
\* the client wraps a nil connection and BlockNumber dereferences it.
Bootstrapping(startOk, attachOk, stateOk) ==
    /\ ~crashed /\ initRes = "ok" /\ bootRes = "none" /\ chain = "created"
    /\ sdPc = "idle"
    /\ IF ~startOk
       THEN bootRes' = "err" /\ UNCHANGED <<chain, crashed, dPc>>
       ELSE /\ chain' = "started"
            /\ IF ~attachOk
               THEN crashed' = TRUE /\ UNCHANGED <<bootRes, dPc>>
               ELSE /\ bootRes' = "ok"
                    /\ crashed' = crashed
                    /\ dPc' = IF stateOk THEN "sleep" ELSE dPc
    /\ UNCHANGED <<ctx, shutdownChan, shutdownWg, txsCh, txsSub, hPc, hBatch,
                   hStale, dBatch, sdPc, sdCalls, sdReturns, initRes, journal,
                   evmPool, pSend, height, hostPool, failed, sentInvalid,
                   staleFwd, hSubmits, steps, pureVars, legacyVars>>

\* A Shutdown that closes the signal without looking at the context.
ShutdownCallUnguarded ==
    /\ ~crashed /\ sdPc = "idle" /\ sdCalls < MaxShutdownCalls
    /\ sdCalls' = sdCalls + 1
    /\ IF shutdownChan = "closed"
       THEN /\ crashed' = TRUE
            /\ UNCHANGED <<shutdownChan, txsCh, sdPc, sdReturns, steps>>
       ELSE /\ shutdownChan' = "closed"
            /\ txsCh' = [i \in 1..Len(txsCh) |-> [txsCh[i] EXCEPT !.stale = TRUE]]
            /\ sdPc' = "closed"
            /\ steps' = Append(steps, "closeSignal")
            /\ UNCHANGED <<sdReturns, crashed>>
    /\ UNCHANGED <<ctx, chain, shutdownWg, txsSub, hPc, hBatch, hStale, dPc,
                   dBatch, initRes, bootRes, journal, evmPool, pSend, height,
                   hostPool, failed, sentInvalid, staleFwd, hSubmits,
                   pureVars, legacyVars>>

\* VM.Shutdown up to close(vm.shutdownChan).  Closing a closed channel
\* panics.  The notifications queued at the close are marked.
ShutdownCall ==
    /\ ~crashed /\ sdPc = "idle" /\ sdCalls < MaxShutdownCalls
    /\ sdCalls' = sdCalls + 1
    /\ IF ~ctx
       THEN /\ sdReturns' = sdReturns + 1
            /\ UNCHANGED <<shutdownChan, txsCh, sdPc, crashed, steps>>
       ELSE IF shutdownChan = "closed"
       THEN /\ crashed' = TRUE
            /\ UNCHANGED <<shutdownChan, txsCh, sdPc, sdReturns, steps>>
       ELSE /\ shutdownChan' = "closed"
            /\ txsCh' = [i \in 1..Len(txsCh) |-> [txsCh[i] EXCEPT !.stale = TRUE]]
            /\ sdPc' = "closed"
            /\ steps' = Append(steps, "closeSignal")
            /\ UNCHANGED <<sdReturns, crashed>>
    /\ UNCHANGED <<ctx, chain, shutdownWg, txsSub, hPc, hBatch, hStale, dPc,
                   dBatch, initRes, bootRes, journal, evmPool, pSend, height,
                   hostPool, failed, sentInvalid, staleFwd, hSubmits,
                   pureVars, legacyVars>>

\* vm.chain.Stop(); vm.chain is nil when NewETHChain failed.
ShutdownStop ==
    /\ ~crashed /\ sdPc = "closed"
    /\ IF chain = "nil"
       THEN crashed' = TRUE /\ UNCHANGED <<chain, sdPc, steps>>
       ELSE /\ chain' = "stopping"
            /\ sdPc' = "stopped"
            /\ steps' = Append(steps, "stopEngine")
            /\ crashed' = crashed
    /\ UNCHANGED <<ctx, shutdownChan, shutdownWg, txsCh, txsSub, hPc, hBatch,
                   hStale, dPc, dBatch, sdCalls, sdReturns, initRes, bootRes,
                   journal, evmPool, pSend, height, hostPool, failed,
                   sentInvalid, staleFwd, hSubmits, pureVars, legacyVars>>

\* vm.chain.Wait().
ShutdownWait ==
    /\ ~crashed /\ sdPc = "stopped"
    /\ chain' = "stopped"
    /\ sdPc' = "halted"
    /\ steps' = Append(steps, "waitEngine")
    /\ UNCHANGED <<ctx, shutdownChan, shutdownWg, txsCh, txsSub, hPc, hBatch,
                   hStale, dPc, dBatch, sdCalls, sdReturns, initRes, bootRes,
                   journal, evmPool, pSend, height, hostPool, crashed, failed,
                   sentInvalid, staleFwd, hSubmits, pureVars, legacyVars>>

\* vm.shutdownWg.Wait() and the return.
ShutdownJoin ==
    /\ ~crashed /\ sdPc = "halted"
    /\ shutdownWg = 0
    /\ sdPc' = "idle"
    /\ sdReturns' = sdReturns + 1
    /\ steps' = Append(steps, "waitBridge")
    /\ UNCHANGED <<ctx, chain, shutdownChan, shutdownWg, txsCh, txsSub, hPc,
                   hBatch, hStale, dPc, dBatch, sdCalls, initRes, bootRes,
                   journal, evmPool, pSend, height, hostPool, crashed, failed,
                   sentInvalid, staleFwd, hSubmits, pureVars, legacyVars>>

\* The host calls VerifyTx with the host transaction of t.
HostVerifyTx(t) ==
    /\ ~crashed /\ chain = "started"
    /\ ptx' = TxOf(t)
    /\ pst' = ChainState
    /\ pop' = "VerifyTx"
    /\ LET r == VerifyTxAt[t, height]
       IN  pres' = [fee |-> r.fee, err |-> r.err, kind |-> "vm"]
    /\ UNCHANGED <<bridgeVars, steps, legacyVars>>

\* VM.BuildBlock of the bridge VM, whatever the transactions handed to it.
BuildBlock ==
    /\ ~crashed
    /\ ptx' = NoTx
    /\ pst' = MkState(TRUE, 0, Big(0))
    /\ pop' = "BuildBlock"
    /\ pres' = [block |-> "nil", err |-> "nil"]
    /\ UNCHANGED <<bridgeVars, steps, legacyVars>>

\* ------------------------------------------------- the bridge VM: sendTxs
\* VM.addTx on the transaction t: qtx is the transaction returned ("nil" with
\* every error), submitted is whether ProcessTransaction was called.
addTx(t, accept) ==
    IF addTxBuilt[t].err
    THEN [qtx |-> "nil", err |-> TRUE, submitted |-> FALSE, accepted |-> {}]
    ELSE LET r == ProcessTransaction(t, accept)
         IN  IF r.err
             THEN [qtx |-> "nil", err |-> TRUE, submitted |-> TRUE, accepted |-> {}]
             ELSE [qtx |-> "mtx", err |-> FALSE, submitted |-> TRUE,
                   accepted |-> r.accepted]

\* A sendTxs whose error branch logs without touching qtx, then removes.
sendTxsStepRemoving(t, accept) ==
    LET r == addTx(t, accept)
    IN  /\ hostPool' = hostPool \cup r.accepted
        /\ failed' = IF r.err THEN failed \cup {t} ELSE failed
        /\ sentInvalid' = (sentInvalid \/ (r.submitted
                              /\ validateTxAt[t, height] # "nil"))
        /\ crashed' = FALSE
        /\ evmPool' = IF r.err THEN evmPool \ {t} ELSE evmPool

\* One iteration of the loop of VM.sendTxs on t.  In the error branch the
\* log line formats qtx.TxHash() first: qtx is nil there, the call
\* dereferences it and the goroutine panics before RemoveTx.
sendTxsStep(t, accept) ==
    LET r == addTx(t, accept)
        panics == r.err /\ r.qtx = "nil"
    IN  /\ hostPool' = hostPool \cup r.accepted
        /\ failed' = IF r.err THEN failed \cup {t} ELSE failed
        /\ sentInvalid' = (sentInvalid \/ (r.submitted
                              /\ validateTxAt[t, height] # "nil"))
        /\ crashed' = panics
        /\ evmPool' = IF r.err /\ ~panics THEN evmPool \ {t} ELSE evmPool

\* ------------------------------------------------ the bridge VM: handler
\* case ev := <-vm.txsCh
HandlerRecv ==
    /\ ~crashed /\ hPc = "select" /\ txsCh # <<>>
    /\ hBatch' = Head(txsCh).txs
    /\ hStale' = Head(txsCh).stale
    /\ txsCh' = Tail(txsCh)
    /\ hPc' = "sendTxs"
    /\ UNCHANGED <<ctx, chain, shutdownChan, shutdownWg, txsSub, dPc, dBatch,
                   sdPc, sdCalls, sdReturns, initRes, bootRes, journal,
                   evmPool, pSend, height, hostPool, crashed, failed,
                   sentInvalid, staleFwd, hSubmits, steps, pureVars,
                   legacyVars>>

\* vm.sendTxs(ev.Txs), one transaction at a time; a panic runs the deferred
\* Unsubscribe and ends the process.
HandlerSend(accept) ==
    /\ ~crashed /\ hPc = "sendTxs"
    /\ sendTxsStep(Head(hBatch), accept)
    /\ hSubmits' = IF addTx(Head(hBatch), accept).submitted
                   THEN hSubmits + 1 ELSE hSubmits
    /\ staleFwd' = (staleFwd \/ (hStale /\ addTx(Head(hBatch), accept).submitted))
    /\ hBatch' = Tail(hBatch)
    /\ IF crashed'
       THEN hPc' = "panicked" /\ txsSub' = "unsubscribed"
       ELSE /\ hPc' = IF Tail(hBatch) = <<>> THEN "select" ELSE "sendTxs"
            /\ txsSub' = txsSub
    /\ UNCHANGED <<ctx, chain, shutdownChan, shutdownWg, txsCh, hStale, dPc,
                   dBatch, sdPc, sdCalls, sdReturns, initRes, bootRes,
                   journal, pSend, height, steps, pureVars, legacyVars>>

\* case <-vm.shutdownChan: break out
HandlerShutdown ==
    /\ ~crashed /\ hPc = "select" /\ shutdownChan = "closed"
    /\ hPc' = "cleanup"
    /\ UNCHANGED <<ctx, chain, shutdownChan, shutdownWg, txsCh, txsSub, hBatch,
                   hStale, dPc, dBatch, sdPc, sdCalls, sdReturns, initRes,
                   bootRes, journal, evmPool, pSend, height, hostPool,
                   crashed, failed, sentInvalid, staleFwd, hSubmits, steps,
                   pureVars, legacyVars>>

\* A cleanup loop that forwards what it receives.
cleanupStepForwarding ==
    IF txsCh # <<>>
    THEN /\ txsCh' = Tail(txsCh) /\ hPc' = "cleanup"
         /\ hStale' = Head(txsCh).stale
         /\ hBatch' = hBatch
         /\ hostPool' = hostPool \cup {Head(txsCh).txs[i] : i \in 1..Len(Head(txsCh).txs)}
         /\ hSubmits' = hSubmits + Len(Head(txsCh).txs)
    ELSE txsCh' = txsCh /\ hPc' = "signal"
         /\ UNCHANGED <<hBatch, hStale, hostPool, hSubmits>>

\* One turn of the cleanup loop: a queued notification is received and
\* dropped, or the channel is empty and the loop ends.
cleanupStep ==
    IF txsCh # <<>>
    THEN txsCh' = Tail(txsCh) /\ hPc' = "cleanup"
         /\ hStale' = Head(txsCh).stale
         /\ UNCHANGED <<hBatch, hostPool, hSubmits>>
    ELSE txsCh' = txsCh /\ hPc' = "signal"
         /\ UNCHANGED <<hBatch, hStale, hostPool, hSubmits>>

HandlerCleanup ==
    /\ ~crashed /\ hPc = "cleanup"
    /\ cleanupStep
    /\ UNCHANGED <<ctx, chain, shutdownChan, shutdownWg, txsSub, dPc, dBatch,
                   sdPc, sdCalls, sdReturns, initRes, bootRes, journal,
                   evmPool, pSend, height, crashed, failed, sentInvalid,
                   staleFwd, steps, pureVars, legacyVars>>

\* vm.shutdownWg.Done()
HandlerDone ==
    /\ ~crashed /\ hPc = "signal"
    /\ shutdownWg' = shutdownWg - 1
    /\ hPc' = "unsub"
    /\ UNCHANGED <<ctx, chain, shutdownChan, txsCh, txsSub, hBatch, hStale,
                   dPc, dBatch, sdPc, sdCalls, sdReturns, initRes, bootRes,
                   journal, evmPool, pSend, height, hostPool, crashed, failed,
                   sentInvalid, staleFwd, hSubmits, steps, pureVars,
                   legacyVars>>

\* A handler that returns without unsubscribing.
HandlerReturnSubscribed ==
    /\ ~crashed /\ hPc = "unsub"
    /\ txsSub' = txsSub
    /\ hPc' = "done"
    /\ UNCHANGED <<ctx, chain, shutdownChan, shutdownWg, txsCh, hBatch, hStale,
                   dPc, dBatch, sdPc, sdCalls, sdReturns, initRes, bootRes,
                   journal, evmPool, pSend, height, hostPool, crashed, failed,
                   sentInvalid, staleFwd, hSubmits, steps, pureVars,
                   legacyVars>>

\* The deferred vm.txsSub.Unsubscribe() as the handler returns.
HandlerUnsub ==
    /\ ~crashed /\ hPc = "unsub"
    /\ txsSub' = "unsubscribed"
    /\ hPc' = "done"
    /\ UNCHANGED <<ctx, chain, shutdownChan, shutdownWg, txsCh, hBatch, hStale,
                   dPc, dBatch, sdPc, sdCalls, sdReturns, initRes, bootRes,
                   journal, evmPool, pSend, height, hostPool, crashed, failed,
                   sentInvalid, staleFwd, hSubmits, steps, pureVars,
                   legacyVars>>

\* --------------------------------------------- the bridge VM: initTxPool
\* The goroutine of initTxPool after its two seconds: Pending(false) groups
\* the pending transactions by sender in the map's order.
DrainWake(pendingOk, order) ==
    /\ ~crashed /\ dPc = "sleep"
    /\ order \in Orders(evmPool)
    /\ IF pendingOk /\ evmPool # {}
       THEN dBatch' = order /\ dPc' = "sendTxs"
       ELSE dBatch' = <<>> /\ dPc' = "done"
    /\ UNCHANGED <<ctx, chain, shutdownChan, shutdownWg, txsCh, txsSub, hPc,
                   hBatch, hStale, sdPc, sdCalls, sdReturns, initRes, bootRes,
                   journal, evmPool, pSend, height, hostPool, crashed, failed,
                   sentInvalid, staleFwd, hSubmits, steps, pureVars,
                   legacyVars>>

\* vm.sendTxs(txs) of the goroutine, one transaction at a time.
DrainSend(accept) ==
    /\ ~crashed /\ dPc = "sendTxs"
    /\ sendTxsStep(Head(dBatch), accept)
    /\ dBatch' = Tail(dBatch)
    /\ dPc' = IF crashed' THEN "panicked"
              ELSE IF Tail(dBatch) = <<>> THEN "done" ELSE "sendTxs"
    /\ UNCHANGED <<ctx, chain, shutdownChan, shutdownWg, txsCh, txsSub, hPc,
                   hBatch, hStale, sdPc, sdCalls, sdReturns, initRes, bootRes,
                   journal, pSend, height, staleFwd, hSubmits, steps,
                   pureVars, legacyVars>>

\* ------------------------------------------------------ the bridge VM: Spec
Init ==
    /\ InitBridge
    /\ journal \in SUBSET Txs
    /\ steps = <<>>
    /\ InitPureIdle
    /\ InitLegacy

Next ==
    \/ \E ok \in BOOLEAN : Initialize(ok)
    \/ \E startOk, attachOk, stateOk \in BOOLEAN :
           Bootstrapping(startOk, attachOk, stateOk)
    \/ ShutdownCall
    \/ ShutdownStop
    \/ ShutdownWait
    \/ ShutdownJoin
    \/ \E t \in HostTxs : HostVerifyTx(t)
    \/ ConnectBlock
    \/ BuildBlock
    \/ \E S \in SUBSET Txs : EngineAdmit(S)
    \/ EngineDeliver
    \/ HandlerRecv
    \/ \E accept \in BOOLEAN : HandlerSend(accept)
    \/ HandlerShutdown
    \/ HandlerCleanup
    \/ HandlerDone
    \/ HandlerUnsub
    \/ \E pendingOk \in BOOLEAN, order \in Orders(evmPool) :
           DrainWake(pendingOk, order)
    \/ \E accept \in BOOLEAN : DrainSend(accept)

Spec == Init /\ [][Next]_vars

\* The scheduling of the program: a goroutine that can take its next step
\* takes it, and a select that is offered the closed shutdown channel again
\* and again chooses that case at some point (select picks among the ready
\* cases at random).
Fairness ==
    /\ WF_vars(ShutdownStop) /\ WF_vars(ShutdownWait) /\ WF_vars(ShutdownJoin)
    /\ WF_vars(EngineDeliver)
    /\ WF_vars(HandlerRecv)
    /\ WF_vars(\E accept \in BOOLEAN : HandlerSend(accept))
    /\ SF_vars(HandlerShutdown)
    /\ WF_vars(HandlerCleanup) /\ WF_vars(HandlerDone) /\ WF_vars(HandlerUnsub)
    /\ WF_vars(\E pendingOk \in BOOLEAN, order \in Orders(evmPool) :
                  DrainWake(pendingOk, order))
    /\ WF_vars(\E accept \in BOOLEAN : DrainSend(accept))

SpecLive == Init /\ [][Next]_vars /\ Fairness

\* ------------------------------------------------------ claims: validator
\* The validation rules in the order of the specification, over the state
\* the validation reads.
RuleViolated(k, tx, st) ==
    CASE k = 1 -> Size(tx) > txMaxSize
      [] k = 2 -> tx.value.hi = 0 /\ tx.value.lo < 0
      [] k = 3 -> BitLen(tx.gasFeeCap) > 256
      [] k = 4 -> BitLen(tx.gasTipCap) > 256
      [] k = 5 -> Cmp(tx.gasFeeCap, tx.gasTipCap) < 0
      [] k = 6 -> tx.sig \notin Senders
      [] k = 7 -> tx.sig \in Senders /\ st.nonce[tx.sig] > tx.nonce
      [] k = 8 -> tx.sig \in Senders /\ Cmp(st.balance[tx.sig], Cost(tx)) < 0
      [] k = 9 -> tx.gas < IntrinsicGas(tx).gas

RuleError(k) ==
    CASE k = 1 -> "ErrOversizedData"
      [] k = 2 -> "ErrNegativeValue"
      [] k = 3 -> "ErrFeeCapVeryHigh"
      [] k = 4 -> "ErrTipVeryHigh"
      [] k = 5 -> "ErrTipAboveFeeCap"
      [] k = 6 -> "ErrInvalidSender"
      [] k = 7 -> "ErrNonceTooLow"
      [] k = 8 -> "ErrInsufficientFunds"
      [] k = 9 -> "ErrIntrinsicGas"

ViolatedRules(tx, st, upto) == {k \in 1..upto : RuleViolated(k, tx, st)}
Lowest(S) == CHOOSE k \in S : \A j \in S : k <= j

\* C7: validateTx fails closed in rule order.  With a chain state at hand it
\* returns the error of the lowest-numbered violated rule of the nine, and
\* "nil" exactly when none is violated; the six rules that read no state are
\* decided first, in order, whatever the state; it never returns success for
\* a transaction that violates a rule.
C7_FailClosedInRuleOrder ==
    pop = "validateTx" =>
        LET all == ViolatedRules(ptx, pst, 9)
            stateless == ViolatedRules(ptx, pst, 6)
        IN  /\ pst.ok =>
                 pres.err = (IF all = {} THEN "nil" ELSE RuleError(Lowest(all)))
            /\ stateless # {} => pres.err = RuleError(Lowest(stateless))
            /\ pres.err = "nil" => all = {}

\* C7 witness: a validation of a transaction that violates three rules or
\* more, the lowest of them the nonce rule.
C7_Witness ==
    /\ pop = "validateTx" /\ pst.ok
    /\ Cardinality(ViolatedRules(ptx, pst, 9)) >= 3
    /\ pres.err = "ErrNonceTooLow"

\* ---------------------------------------------------------- claims: codec
\* C8: round trip.  Decoding the script of the host transaction that addTx or
\* ToQNGTx built for an encodable transaction succeeds and yields a
\* transaction whose binary encoding is that of the original.
C8_RoundTrip ==
    pop = "roundtrip" =>
        /\ ~pres.err
        /\ MarshalBinary(pres.tx) = MarshalBinary(ptx)

\* C8 witness: the round trip of a typed transaction with a two-byte nonce
\* field and a payload holding a zero byte, through ToQNGTx.
C8_Witness ==
    /\ pop = "roundtrip" /\ pres.via = "ToQNGTx"
    /\ ptx.typ = 2 /\ ptx.nonce = 128 /\ ptx.data = <<255, 0, 16>>
    /\ ~pres.err

HostTxShape(mtx, tx) ==
    /\ Len(mtx.TxIn) = 1
    /\ Len(mtx.TxOut) = 1
    /\ LET in == mtx.TxIn[1]
           h == in.PreviousOut.Hash
       IN  /\ Len(h) = HashLen
           /\ \A i \in 1..HashLen : h[i] = Hash(tx)[HashLen + 1 - i]
           /\ in.PreviousOut.OutIndex = "SupperPrevOutIndex"
           /\ SubSeq(in.SignScript, 1, 2) = <<"0", "x">>
           /\ Len(in.SignScript) = 2 + 2 * Len(MarshalBinary(tx).b)
           /\ HexDecodeString(SubSeq(in.SignScript, 3, Len(in.SignScript)))
                  = MarshalBinary(tx).b
    /\ mtx.TxOut[1].Amount.Value = 0
    /\ mtx.TxOut[1].PkScript = "EVMTxPKScript"

\* C9: every host transaction that addTx or ToQNGTx builds has exactly one
\* input and one output; the input's previous-output hash is the identity
\* hash byte-reversed, at the reserved index; its script is the hex encoding
\* of the binary encoding; the output has value zero and the marker script.
C9_HostTxShape ==
    (pop \in {"addTx", "ToQNGTx"} /\ ~pres.err) => HostTxShape(pres.mtx, ptx)

\* C9 witness: ToQNGTx has built the host transaction of a typed transaction
\* with a timestamp.
C9_Witness ==
    /\ pop = "ToQNGTx" /\ ~pres.err /\ pres.timestamp = 1
    /\ ptx.typ = 1 /\ Hash(ptx) # ReverseLoop(Hash(ptx), 0)

\* ------------------------------------------------ the VM of src/evm/vm.go
\* VM.Initialize; lvlOk is whether the configured debug level parses.  The
\* glog field is never assigned, so setting its verbosity dereferences nil.
LegacyInitialize(lvlOk) ==
    /\ ~lcrashed /\ ~lctx /\ lpc = "idle"
    /\ IF lvlOk
       THEN lcrashed' = TRUE /\ UNCHANGED <<lctx, lchan, lnode>>
       ELSE /\ lchan' = "open"
            /\ lctx' = TRUE
            /\ lnode' = "created"
            /\ lcrashed' = lcrashed
    /\ UNCHANGED <<lpc, lheight, lres, bridgeVars, steps, pureVars>>

\* VM.Bootstrapping; attachOk is whether node.Attach succeeds.  After a
\* failed Attach the client wraps a nil connection and BlockNumber
\* dereferences it.  Every other failure is logged or ignored.
LegacyBootstrapping(attachOk) ==
    /\ ~lcrashed /\ lctx /\ lnode = "created" /\ lpc = "idle"
    /\ lnode' = "started"
    /\ lcrashed' = ~attachOk
    /\ UNCHANGED <<lctx, lchan, lpc, lheight, lres, bridgeVars, steps,
                   pureVars>>

\* VM.Shutdown up to vm.node.Close().
LegacyShutdownCall ==
    /\ ~lcrashed /\ lpc = "idle"
    /\ IF ~lctx
       THEN UNCHANGED <<lnode, lpc, steps>>
       ELSE /\ lnode' = "closed"
            /\ lpc' = "nodeClosed"
            /\ steps' = Append(steps, "stopEngine")
    /\ UNCHANGED <<lctx, lchan, lheight, lres, lcrashed, bridgeVars,
                   pureVars>>

\* close(vm.shutdownChan); closing a closed channel panics.
LegacyShutdownClose ==
    /\ ~lcrashed /\ lpc = "nodeClosed"
    /\ IF lchan = "closed"
       THEN lcrashed' = TRUE /\ UNCHANGED <<lchan, lpc, steps>>
       ELSE /\ lchan' = "closed"
            /\ lpc' = "signalClosed"
            /\ steps' = Append(steps, "closeSignal")
            /\ lcrashed' = lcrashed
    /\ UNCHANGED <<lctx, lnode, lheight, lres, bridgeVars, pureVars>>

\* vm.shutdownWg.Wait() and the return; nothing was ever added to the group.
LegacyShutdownJoin ==
    /\ ~lcrashed /\ lpc = "signalClosed"
    /\ lpc' = "idle"
    /\ steps' = Append(steps, "waitBridge")
    /\ UNCHANGED <<lctx, lchan, lnode, lheight, lres, lcrashed, bridgeVars,
                   pureVars>>

\* The host transactions handed to BuildBlock, by what the callback does with
\* each: an export with a usable or an unusable public key, an embedded
\* transaction that decodes or one that does not.
LegacyTxKinds == {"export", "exportBadKey", "vm", "garbled"}

LegacyTxLists == {<<>>} \cup {<<k>> : k \in LegacyTxKinds}
                 \cup {<<j, k>> : j, k \in LegacyTxKinds}

\* The block that GenerateChain's callback fills from txs: the embedded
\* transactions added, and whether an export set the extra data.
GeneratedBlock(number, txs) ==
    [number |-> number,
     ntx |-> Cardinality({i \in 1..Len(txs) : txs[i] = "vm"}),
     extra |-> \E i \in 1..Len(txs) : txs[i] = "export"]

\* What InsertChainWithoutSealVerification answers: the block is inserted
\* (1, nil), refused (0, err), or skipped because the chain is being
\* interrupted (0, nil).
InsertOutcomes == {"inserted", "refused", "interrupted"}

\* VM.BuildBlock.  GenerateChain is asked for one block and returns one.
LegacyBuildBlock(txs, outcome) ==
    /\ ~lcrashed /\ lctx /\ lnode # "closed" /\ lpc = "idle"
    /\ lheight < MaxLegacyHeight
    /\ LET blocks == <<GeneratedBlock(lheight + 1, txs)>>
           num == IF outcome = "inserted" THEN 1 ELSE 0
       IN  IF Len(blocks) # 1
           THEN lheight' = lheight
                /\ lres' = [err |-> "BuildBlock error", block |-> NilBlock]
           ELSE IF outcome = "refused"
           THEN lheight' = lheight
                /\ lres' = [err |-> "insert error", block |-> NilBlock]
           ELSE IF num # 1
           THEN lheight' = lheight
                /\ lres' = [err |-> "BuildBlock error", block |-> NilBlock]
           ELSE lheight' = lheight + num
                /\ lres' = [err |-> "nil", block |-> blocks[1]]
    /\ UNCHANGED <<lctx, lchan, lnode, lpc, lcrashed, bridgeVars, steps,
                   pureVars>>

NextLegacy ==
    \/ \E lvlOk \in BOOLEAN : LegacyInitialize(lvlOk)
    \/ \E attachOk \in BOOLEAN : LegacyBootstrapping(attachOk)
    \/ LegacyShutdownCall
    \/ LegacyShutdownClose
    \/ LegacyShutdownJoin
    \/ \E txs \in LegacyTxLists, outcome \in InsertOutcomes :
           LegacyBuildBlock(txs, outcome)

\* The legacy VM alone: the bridge VM stays as constructed.
InitLegacyVM ==
    /\ InitBridge
    /\ journal = {}
    /\ steps = <<>>
    /\ InitPureIdle
    /\ InitLegacy

SpecLegacy == InitLegacyVM /\ [][NextLegacy]_vars

\* ------------------------------------------------------- claims: bridge
\* C1: a transaction whose encoding or submission fails is removed from the
\* embedded pool, and the failure terminates neither the event loop nor the
\* startup drain nor the process.
C1_FailureIsolated ==
    /\ \A t \in failed : t \notin evmPool
    /\ hPc # "panicked" /\ dPc # "panicked" /\ (failed # {} => ~crashed)

\* C2: forwarding a transaction the host mempool already holds is a no-op:
\* it is no error and changes neither pool, whoever forwards it.
C2_ResubmitNoOp ==
    [][\A t \in hostPool :
          ((hPc = "sendTxs" /\ Head(hBatch) = t /\ hBatch' = Tail(hBatch))
             \/ (dPc = "sendTxs" /\ Head(dBatch) = t /\ dBatch' = Tail(dBatch)))
          => (hostPool' = hostPool /\ evmPool' = evmPool /\ failed' = failed
                /\ crashed' = FALSE)]_vars

C4_StartupDrain ==
    (bootRes = "ok" /\ dPc \notin {"sleep", "sendTxs"})
    => journal \subseteq hostPool

\* C5: after a successful Initialize, a Shutdown that has begun returns.
C5_ShutdownTerminates ==
    (initRes = "ok" /\ sdPc # "idle") ~> (sdPc = "idle")

\* C6 as stated: no transaction of a notification that was queued when the
\* shutdown signal was closed is forwarded by the event loop.
C6_QueuedNeverForwarded == ~staleFwd

\* C6, amended: from the moment the event loop has observed the shutdown
\* signal it submits nothing more to the host mempool; the notifications
\* still queued then are received and dropped.
C6_NoForwardOnceObserved ==
    [][(hPc \in {"cleanup", "signal", "unsub", "done"})
       => (hSubmits' = hSubmits /\ hBatch' = hBatch
           /\ Len(txsCh') <= Len(txsCh) + 1)]_vars

C6_Witness == hPc = "done" /\ hStale /\ ~staleFwd /\ txsCh = <<>>

\* C10: Shutdown closes the shutdown signal, then stops the engine, then
\* waits for the engine to halt, then waits for the bridge loop; it has not
\* returned before the loop signalled completion.
C10_ShutdownOrder ==
    /\ \E n \in 0..4 :
          steps = SubSeq(<<"closeSignal", "stopEngine", "waitEngine", "waitBridge">>, 1, n)
    /\ Len(steps) = 4 => hPc \in {"unsub", "done"}

\* C11: a Shutdown call on a VM whose Initialize was never called returns
\* success and changes nothing: the signal stays open, no engine handle is
\* touched, the wait group is not waited on.
C11_ShutdownUninitializedNoOp ==
    [][(sdCalls' = sdCalls + 1 /\ ~ctx)
       => (/\ sdReturns' = sdReturns + 1
           /\ shutdownChan' = "open" /\ sdPc' = "idle" /\ steps' = steps
           /\ crashed' = FALSE
           /\ <<ctx, chain, shutdownWg, txsCh, txsSub, hPc, dPc, evmPool,
                hostPool>>' =
              <<ctx, chain, shutdownWg, txsCh, txsSub, hPc, dPc, evmPool,
                hostPool>>)]_vars

C11_Witness ==
    /\ ~ctx /\ initRes = "none" /\ sdCalls >= 1 /\ sdReturns = sdCalls
    /\ shutdownChan = "open"

\* C12: a Shutdown call on an initialized VM whose signal is already closed
\* by a completed Shutdown returns normally and changes nothing.
C12_ShutdownIdempotent ==
    [][(sdCalls' = sdCalls + 1 /\ ctx /\ shutdownChan = "closed")
       => (/\ sdReturns' = sdReturns + 1
           /\ crashed' = FALSE
           /\ shutdownChan' = "closed" /\ steps' = steps
           /\ hPc' = hPc)]_vars

\* C13: a BuildBlock call that reports success returns a block and has
\* advanced the embedded chain by exactly that block; one that reports an
\* error leaves the chain where it was.
C13_BuildBlockResult ==
    [][/\ (pop' = "BuildBlock") => (pres'.err # "nil" \/ pres'.block # "nil")
       /\ (lres' # lres \/ lheight' # lheight)
          => IF lres'.err = "nil"
             THEN lheight' = lheight + 1 /\ lres'.block.number = lheight'
             ELSE lheight' = lheight /\ lres'.block = NilBlock]_vars

\* C14: the host hash that GetBlock and LastAccepted return is the
\* byte-reversal of the engine's hash of its current block, and GetBlock
\* reports the block as Accepted.
C14_BlockHashReversed ==
    /\ pop = "GetBlock"
       => (pres.id = ReverseBytes(BlockHash(pres.ethBlock))
           /\ pres.status = "Accepted")
    /\ pop = "LastAccepted"
       => pres.id = ReverseBytes(BlockHash(pres.ethBlock))

\* C16: the host amount of a balance is the floor of the balance divided by
\* the precision: 0 for 0, and no smaller than the host amount of any smaller
\* balance.
C16_AmountFloorMonotonic ==
    (pop = "GetBalance" /\ pres.err = "nil")
    => (/\ pres.amount = pres.balance \div Precision
        /\ pres.balance = 0 => pres.amount = 0
        /\ \A y \in Balances :
              y <= pres.balance
              => GetBalance("A", MkState(TRUE, 0, Big(y))).amount <= pres.amount)

\* C15: a Bootstrapping call that has started the engine returns success
\* and has started the startup drain, whatever its diagnostic steps met.
C15_BootstrappingDiagnostics ==
    [][(chain = "created" /\ chain' = "started")
       => (bootRes' = "ok" /\ dPc' = "sleep" /\ crashed' = FALSE)]_vars

\* C17: after the shutdown signal is closed, a producer with a notification
\* to send on the bounded channel gets rid of it (delivered, or released by
\* the unsubscribe), unless the whole process has ended.
C17_ProducerReleased ==
    (shutdownChan = "closed" /\ pSend # <<>>) ~> (pSend = <<>> \/ crashed)

C17_Witness ==
    /\ shutdownChan = "closed" /\ hPc = "cleanup"
    /\ txsSub = "subscribed" /\ Len(txsCh) = TxsChCap /\ pSend # <<>>

\* C18 as stated: the event-loop task and the startup-drain task start in
\* an Initialize step and nowhere else, and a successful Initialize starts
\* both.
C18_OnlyInitializeSpawns ==
    [][/\ ((hPc = "none" /\ hPc' # "none") \/ (dPc = "none" /\ dPc' # "none"))
          => (initRes = "none" /\ initRes' # "none")
       /\ (initRes = "none" /\ initRes' = "ok")
          => (hPc' # "none" /\ dPc' # "none")]_vars

\* C18, amended: the event-loop task starts in the successful Initialize
\* step and only there; the startup-drain task starts only in a Bootstrapping
\* step that returns success; no other step starts a task.
C18_SpawnPoints ==
    [][/\ (hPc = "none" /\ hPc' # "none")
          <=> (initRes = "none" /\ initRes' = "ok")
       /\ (dPc = "none" /\ dPc' # "none")
          => (bootRes = "none" /\ bootRes' = "ok" /\ initRes' = initRes)
       /\ (initRes = "none" /\ initRes' # "none") => dPc' = dPc]_vars

C18_Witness ==
    /\ initRes = "ok" /\ bootRes = "ok" /\ hPc # "none" /\ dPc # "none"

\* C19: once a Shutdown of an initialized VM has returned, neither task of
\* the bridge runs a step of sendTxs and neither pool changes.
C19_QuietAfterShutdown ==
    [][(ctx /\ sdPc = "idle" /\ Len(steps) = 4)
       => (/\ hostPool' = hostPool /\ evmPool' = evmPool /\ failed' = failed
           /\ hPc = "sendTxs" => hBatch' = hBatch
           /\ dPc = "sendTxs" => dBatch' = dBatch)]_vars

C21_FailedInitializeIsUninitialized ==
    [][/\ (initRes = "none" /\ initRes' = "err")
          => (txsSub' = "none" /\ hPc' = "none" /\ dPc' = "none"
              /\ chain' = "nil" /\ shutdownWg' = 0)
       /\ (initRes = "err" /\ sdCalls' = sdCalls + 1)
          => (/\ sdReturns' = sdReturns + 1
              /\ shutdownChan' = shutdownChan /\ sdPc' = "idle"
              /\ steps' = steps /\ crashed' = FALSE)]_vars

====
